---- MODULE Spec2Model ----
(***************************************************************************)
(* The cover-letter pipeline of modus95/cover_letter_agent_adk: three      *)
(* extraction agents run by a parallel research team, then the cover       *)
(* letter generator, composed by a sequential root agent, and the caller   *)
(* (call_agent_async) that folds the event stream into the response text.  *)
(*                                                                         *)
(* Two wirings of the root agent exist in the source:                      *)
(*   root = "SequentialAgent"   src/cover_letter_agent/agent.py:157-168    *)
(*   root = "CoverLetterAgent"  src/cover_letter_agent/safe_agents.py      *)
(*          (SafeParallelAgent over SafeLlmAgent sub-agents)               *)
(***************************************************************************)
EXTENDS Naturals, Sequences, FiniteSets, TLC

\* Intermediate (non-final) events an agent may emit before it resolves.
MaxSteps == 1

VARIABLES
    root,                 \* class of the root agent
    generator_kind,       \* class of sub_agents[1]: "LlmAgent" or "SafeLlmAgent"
    utils_module,         \* which call_agent_async drives the run
    pc,                   \* position of the root agent's run
    tstate,               \* run state of each extraction agent
    gstate,               \* run state of generator_agent
    steps,                \* intermediate events emitted, per agent
    starts,               \* how many times each agent's run was started
    state,                \* session state: output_key -> saved output
    writes,               \* how many times each key was written
    writers,              \* the agents that wrote each key
    gen_text,             \* the text of generator_agent's final response
    error_msg,            \* what the except handler printed
    exc,                  \* the exception that left the root agent's run
    join_aborted,         \* the research team's run ended by an exception
    final_response_text,  \* call_agent_async's accumulator
    final_author,         \* the agent whose event set the accumulator
    call,                 \* call_agent_async: "running", "returned", "raised"
    order,                \* the extraction agents in the order they finished
    \* -- extract_web_content and read_pdf (the extraction tools)
    tavily,               \* what tavily_client.extract does with the url
    tool_pc,              \* extract_web_content: "idle", "returned", "raised"
    tool_result,          \* the dictionary extract_web_content returned
    tool_exc,             \* the exception that left extract_web_content
    file_exists,          \* file_path.exists()
    pages,                \* page.extract_text() of each page of the PDF
    pdf_pc,               \* read_pdf: "idle", "returned", "raised"
    pdf_text,             \* what read_pdf returned
    \* -- the JSON wire form of a response and load_json
    content,              \* the ResponseContent the agent answers with
    data,                 \* the response string given to load_json
    loaded,               \* what load_json returned
    json_pc,              \* "idle", "dumped", "loaded", "raised"
    \* -- the front ends: streamlit_app.main and app/main.py main_async
    frontend,             \* "streamlit_app" or "main"
    company_url,          \* the company URL as entered
    job_role_url,         \* the job URL as entered
    generating,           \* st.session_state.generating
    generated_cover_letter, \* st.session_state.generated_cover_letter
    is_error,             \* st.session_state.is_error
    app_pc,               \* "ready", "generating", "rerun", "done", "raised"
    clicks,               \* clicks on Generate so far
    runs,                 \* pipeline runs started so far
    agent_response,       \* the text the last agent run returned
    shown,                \* what the page (or the terminal) shows
    accepted,             \* accepted clicks on Generate so far
    last_outcome,         \* how the most recent generation attempt ended
    \* -- one SafeLlmAgent's run_live on its own
    safe_name,           \* self.name
    safe_output_key,     \* self.output_key (None: not set)
    safe_pc,              \* run_live: "idle", "running", "done", "raised"
    yielded,              \* events yielded so far
    safe_final,           \* the text of the final response it yielded
    saved,                \* what the session state holds under the output key
    safe_cause,           \* the exception the underlying run raised
    safe_exc,             \* the exception that left run_live
    \* -- one call of call_agent_async on a stream of events
    caller_module,        \* "utils" (src/utils.py) or "app.utils"
    events,               \* the events runner.run_async yields
    stream_raises,        \* the stream ends by raising after its events
    cursor,               \* the event the loop is at
    response_text,        \* this call's final_response_text
    caller_pc,            \* "idle", "running", "returned", "raised"
    \* -- one call of an after-agent callback logging_agent_output_status
    cb_variant,           \* the module whose callback it is
    cb_agent,             \* callback_context.agent_name
    cb_output,            \* callback_context.state.get(<the output key>)
    cb_pc,                \* "idle", "returned", "raised"
    cb_exc,               \* the exception that left the callback
    cb_logged             \* the status it logged

\* The state of one run of the pipeline.
pipeVars == <<root, generator_kind, utils_module, pc, tstate, gstate, steps, starts,
              state, writes, writers, gen_text, error_msg, exc, join_aborted,
              final_response_text, final_author, call, order>>

\* The state of the extraction tools.
toolVars == <<tavily, tool_pc, tool_result, tool_exc, file_exists, pages, pdf_pc, pdf_text>>

\* The state of one serialization and load_json call.
jsonVars == <<content, data, loaded, json_pc>>

\* The state of a front end's session.
appVars == <<frontend, company_url, job_role_url, generating, generated_cover_letter,
             is_error, app_pc, clicks, runs, agent_response, shown, accepted,
             last_outcome>>

\* The state of one SafeLlmAgent run.
safeVars == <<safe_name, safe_output_key, safe_pc, yielded, safe_final, saved, safe_cause,
              safe_exc>>

\* The state of one call of call_agent_async.
callerVars == <<caller_module, events, stream_raises, cursor, response_text, caller_pc>>

\* The state of one call of the logging callback.
cbVars == <<cb_variant, cb_agent, cb_output, cb_pc, cb_exc, cb_logged>>

\* The state of the caller's side of a run.
laterVars == <<callerVars, cbVars>>

\* The state outside the pipeline's run.
outside == <<toolVars, jsonVars, appVars, safeVars, laterVars>>

vars == <<pipeVars, outside>>

----------------------------------------------------------------------------
\* The agents and their output keys (src/cover_letter_agent/agent.py).

Tasks == {"company_web_researcher", "job_description_extractor_agent", "cv_parcer_agent"}

Generator == "cl_generator_agent"

ResearchTeam == "ParallelResearchTeam"

Agents == Tasks \cup {Generator}

\* Mutant: the generator configured with an extraction agent's output_key.
output_key_reused(a) ==
    CASE a = "company_web_researcher" -> "company_info"
      [] a = "job_description_extractor_agent" -> "job_description"
      [] OTHER -> "cv_info"

\* Mutant: the CV parser configured with the job description's output_key.
output_key_shared(a) ==
    CASE a = "company_web_researcher" -> "company_info"
      [] a = "job_description_extractor_agent" -> "job_description"
      [] a = "cv_parcer_agent" -> "job_description"
      [] OTHER -> "cover_letter"

output_key(a) ==
    CASE a = "company_web_researcher" -> "company_info"
      [] a = "job_description_extractor_agent" -> "job_description"
      [] a = "cv_parcer_agent" -> "cv_info"
      [] OTHER -> "cover_letter"

StageKeys == {output_key(t) : t \in Tasks}

Keys == {output_key(a) : a \in Agents}

\* What a successful extraction agent puts in its payload field.
Payload(a) ==
    CASE a = "company_web_researcher" -> "Acme Corp profile"
      [] a = "job_description_extractor_agent" -> "Backend Engineer role"
      [] a = "cv_parcer_agent" -> "Jane Doe CV"
      [] OTHER -> "Dear Hiring Manager"

\* Error texts of the upstream services and of the models.
Reasons == {"404 Not Found", "timeout"}

\* A response text: the JSON object it holds (status "none": no object, the
\* text is empty apart from pad) and whether white space surrounds it.
Text(pad, status, message) == [pad |-> pad, status |-> status, message |-> message]

EmptyText == Text(FALSE, "none", "")

\* White space around the answer is enumerated for the generator, whose text
\* is the pipeline's response.
Pads(a) == IF a = "cl_generator_agent" THEN BOOLEAN ELSE {FALSE}

\* The texts an agent's model can answer with, following its output format.
Outputs(a) ==
    {Text(p, "success", Payload(a)) : p \in Pads(a)}
        \cup {Text(p, "error", r) : p \in Pads(a), r \in Reasons}

\* The generator may also end with a blank or empty final text.
GeneratorOutputs == Outputs(Generator) \cup {Text(p, "none", "") : p \in BOOLEAN}

\* str.strip()
Strip(text) == [text EXCEPT !.pad = FALSE]

\* bool(text) of a str
Truthy(text) == text.pad \/ text.status # "none"

NoExc == [kind |-> "none", agent_name |-> "", message |-> ""]

Exception(msg) == [kind |-> "Exception", agent_name |-> "", message |-> msg]

AgentExecutionError(agent_name, message) ==
    [kind |-> "AgentExecutionError", agent_name |-> agent_name, message |-> message]

\* str(e) of a plain exception
Str(e) == e.message

NoMsg == [agent_name |-> "", message |-> ""]

\* error_msg of CoverLetterAgent's handler: the f-string's two fields.
ErrorMsg(e) == [agent_name |-> e.agent_name, message |-> e.message]

----------------------------------------------------------------------------
\* The classes of safe_agents.py and the stock agents, as pure functions of
\* the exception that reaches them.

\* The class of the three extraction agents under each root.
TaskKind == IF root = "CoverLetterAgent" THEN "SafeLlmAgent" ELSE "LlmAgent"

\* SafeLlmAgent.run_live's except block for agent a with output_key key: with
\* the key set, e is re-raised as an AgentExecutionError; without, the block
\* ends and nothing leaves run_live.
SafeLlmRaise(a, key, e) ==
    IF key # "<None>" THEN AgentExecutionError(a, Str(e)) ELSE NoExc

\* The exception that leaves agent a of class kind when its run raises e
\* (every agent of the pipeline has its output_key set).
LlmRaise(kind, a, e) ==
    IF kind = "SafeLlmAgent" THEN SafeLlmRaise(a, output_key(a), e) ELSE e

\* SafeParallelAgent.run_live: an AgentExecutionError passes, anything else
\* is wrapped under the team's own name.
SafeParallelRaise(e) ==
    IF e.kind = "AgentExecutionError" THEN e
    ELSE AgentExecutionError(ResearchTeam, Str(e))

\* The exception that leaves research_team.run_live.
TeamRaise(e) == IF root = "CoverLetterAgent" THEN SafeParallelRaise(e) ELSE e

\* CoverLetterAgent's only handler is "except AgentExecutionError";
\* SequentialAgent has none.
Caught(e) == root = "CoverLetterAgent" /\ e.kind = "AgentExecutionError"

\* The research team's run has ended normally: every sub-agent is finished.
TeamFinished == \A t \in Tasks : tstate[t] = "done"

\* Mutant: the generator's loop placed after the try/except, so that it also
\* runs once the handler is through.
GeneratorMayStartAfterHandler == (pc = "Extracting" /\ TeamFinished) \/ pc = "Failed"

\* Mutant: the generator started as soon as one sub-agent has finished.
GeneratorMayStartEarly == pc = "Extracting" /\ \E t \in Tasks : tstate[t] = "done"

\* Mutant: the generator also started when the CV parser is the first to
\* finish, without waiting for its siblings.
GeneratorMayStartByOrder ==
    pc = "Extracting" /\ (TeamFinished \/ (order # <<>> /\ order[1] = "cv_parcer_agent"))

\* CoverLetterAgent.run_live and SequentialAgent: the generator's loop follows
\* the research team's loop, and is reached only when that loop ended normally.
GeneratorMayStart == pc = "Extracting" /\ TeamFinished

\* Mutant: the handler starts the run over after an error.
HandlerRetry == "Idle"

\* Where the root agent's run goes after the except handler: it ends.
HandlerNext == "Done"

\* Mutant: the first non-empty response is kept instead of the last.
AccumulateFirst(text) ==
    IF Truthy(text) /\ Truthy(Strip(text)) /\ ~Truthy(final_response_text)
    THEN Strip(text) ELSE final_response_text

\* call_agent_async's loop body on one final-response event with this text:
\* process_agent_response strips a non-empty text, and a non-empty result
\* replaces the accumulator.
Accumulate(text) ==
    IF Truthy(text) /\ Truthy(Strip(text)) THEN Strip(text) ELSE final_response_text

Accumulates(text) == Truthy(text) /\ Truthy(Strip(text))

----------------------------------------------------------------------------
\* The extraction tools: extract_web_content (app/sub_agents/job_info) and
\* read_pdf (app/utils.py). Strings the tools compute with are sequences of
\* characters; None is Python's None.

\* Pages of the uploaded PDF.
MaxPages == 2

None == "<None>"

\* What page.extract_text() can give: nothing, white space, or text.
PageTexts == {<<>>, <<" ">>, <<"J">>, <<" ", "J">>}

IsSpace(c) == c \in {" ", "\n"}

RECURSIVE LStrip(_)
LStrip(s) == IF s = <<>> THEN s ELSE IF IsSpace(Head(s)) THEN LStrip(Tail(s)) ELSE s

RECURSIVE RStrip(_)
RStrip(s) ==
    IF s = <<>> THEN s
    ELSE IF IsSpace(s[Len(s)]) THEN RStrip(SubSeq(s, 1, Len(s) - 1)) ELSE s

\* str.strip() of a string of characters
StrStrip(s) == RStrip(LStrip(s))

RECURSIVE Join(_, _)
\* sep.join(parts)
Join(sep, parts) ==
    IF parts = <<>> THEN <<>>
    ELSE IF Len(parts) = 1 THEN parts[1]
    ELSE parts[1] \o <<sep>> \o Join(sep, Tail(parts))

\* read_pdf's return value for a file that exists.
ReadPdfText(ps) == StrStrip(Join("\n", ps))

\* tavily_client.extract raising an exception whose str() is msg.
TavilyRaises(msg) ==
    [raises |-> TRUE, message |-> msg, failed_results |-> <<>>, results |-> <<>>]

\* tavily_client.extract returning a response.
TavilyResponse(failed, results) ==
    [raises |-> FALSE, message |-> "", failed_results |-> failed, results |-> results]

FailedResults == {<<>>} \cup {<<[error |-> e]>> : e \in Reasons \cup {None}}

Results == {<<>>} \cup {<<[raw_content |-> c]>> : c \in {None, "", "Backend Engineer role"}}

TavilyOutcomes ==
    {TavilyRaises(r) : r \in Reasons \cup {""}}
        \cup {TavilyResponse(f, rs) : f \in FailedResults, rs \in Results}

NoResult == [status |-> "none"]

\* extract_web_content raises: results is empty and response.get("results")[0]
\* is outside the try block.
ExtractRaises(tv) == ~tv.raises /\ tv.failed_results = <<>> /\ tv.results = <<>>

\* The dictionary extract_web_content returns.
ExtractResult(tv) ==
    IF tv.raises
    THEN [status |-> "error", error_message |-> tv.message]
    ELSE IF tv.failed_results # <<>>
    THEN [status |-> "error", error_message |-> tv.failed_results[1].error]
    ELSE [status |-> "success", web_content |-> tv.results[1].raw_content]

\* No tool has been called.
ToolsIdle ==
    /\ tavily = TavilyRaises("")
    /\ tool_pc = "idle"
    /\ tool_result = NoResult
    /\ tool_exc = ""
    /\ file_exists = FALSE
    /\ pages = <<>>
    /\ pdf_pc = "idle"
    /\ pdf_text = <<>>

----------------------------------------------------------------------------
\* The JSON wire form {"status": ..., "message": ...} of a ResponseContent
\* and load_json (app/utils.py, app/vertex_utils.py). A string is a sequence
\* of characters; the text from the opening brace's successor up to the
\* message's opening quote is one token, which holds no brace.

\* Length of the message texts.
MaxMsgLen == 2

\* Characters of a message: a letter, a double quote, a newline, braces.
MsgChars == {"a", "\"", "\n", "{", "}"}

Messages == UNION {[1..n -> MsgChars] : n \in 0..MaxMsgLen}

Contents == [status : {"success", "error"}, message : Messages]

\* "status": "<status>", "message":
Header(status) == "\"status\": \"" \o status \o "\", \"message\": "

Statuses == {"success", "error"}

\* JSON's escape of one character inside a string.
EscapeChar(c) ==
    CASE c = "\"" -> <<"\\", "\"">>
      [] c = "\\" -> <<"\\", "\\">>
      [] c = "\n" -> <<"\\", "n">>
      [] OTHER -> <<c>>

RECURSIVE Escape(_)
Escape(s) == IF s = <<>> THEN <<>> ELSE EscapeChar(Head(s)) \o Escape(Tail(s))

\* The JSON text of a ResponseContent.
JsonDumps(c) == <<"{", Header(c.status), "\"">> \o Escape(c.message) \o <<"\"", "}">>

RECURSIVE MatchEnd(_, _, _)
\* Where a match of pat that has consumed s up to j - 1 ends (0: no match),
\* depth being the number of braces open: pat allows one brace group inside
\* the outer braces and no deeper nesting.
MatchEnd(s, j, depth) ==
    IF j > Len(s) THEN 0
    ELSE IF s[j] = "{" THEN (IF depth = 2 THEN 0 ELSE MatchEnd(s, j + 1, depth + 1))
    ELSE IF s[j] = "}" THEN (IF depth = 1 THEN j ELSE MatchEnd(s, j + 1, depth - 1))
    ELSE MatchEnd(s, j + 1, depth)

\* The start positions at which pat matches.
MatchStarts(s) == {i \in 1..Len(s) : s[i] = "{" /\ MatchEnd(s, i + 1, 1) # 0}

\* re.search(pat, data): None, or the leftmost match.
Search(s) ==
    IF MatchStarts(s) = {} THEN None
    ELSE LET i == CHOOSE k \in MatchStarts(s) : \A l \in MatchStarts(s) : k <= l
         IN  SubSeq(s, i, MatchEnd(s, i + 1, 1))

JSONDecodeError == [error |-> "JSONDecodeError"]

RECURSIVE DecodeString(_, _, _)
\* json's scan of a string body from position j: the decoded text and the
\* position after the closing quote, or JSONDecodeError.
DecodeString(s, j, acc) ==
    IF j > Len(s) THEN JSONDecodeError
    ELSE IF s[j] = "\"" THEN [error |-> "", text |-> acc, next |-> j + 1]
    ELSE IF s[j] = "\n" THEN JSONDecodeError
    ELSE IF s[j] = "\\"
    THEN (IF j + 1 > Len(s) THEN JSONDecodeError
          ELSE IF s[j + 1] = "n" THEN DecodeString(s, j + 2, Append(acc, "\n"))
          ELSE IF s[j + 1] \in {"\"", "\\"} THEN DecodeString(s, j + 2, Append(acc, s[j + 1]))
          ELSE JSONDecodeError)
    ELSE DecodeString(s, j + 1, Append(acc, s[j]))

\* json.loads of an object text: the dictionary, or JSONDecodeError.
JsonLoads(s) ==
    IF Len(s) < 3 \/ s[1] # "{" \/ s[3] # "\"" THEN JSONDecodeError
    ELSE IF \A st \in Statuses : s[2] # Header(st) THEN JSONDecodeError
    ELSE LET body == DecodeString(s, 4, <<>>)
         IN  IF body.error # "" THEN JSONDecodeError
             ELSE IF body.next # Len(s) \/ s[body.next] # "}" THEN JSONDecodeError
             ELSE [status |-> CHOOSE st \in Statuses : s[2] = Header(st),
                   message |-> body.text]

\* The empty dictionary.
EmptyDict == <<>>

\* load_json raises AttributeError: re.search found nothing, and None has no
\* group.
LoadJsonRaises(s) == MatchStarts(s) = {}

\* load_json(data) when it returns: the parsed object, or {} on a
\* JSONDecodeError.
load_json(s) ==
    LET parsed == JsonLoads(Search(s))
    IN  IF "error" \in DOMAIN parsed THEN EmptyDict ELSE parsed

\* dict.get(key, default)
Get(d, key, default) == IF key \in DOMAIN d THEN d[key] ELSE default

\* Nothing has been serialized or loaded.
JsonIdle ==
    /\ content = [status |-> "success", message |-> <<>>]
    /\ data = <<>>
    /\ loaded = EmptyDict
    /\ json_pc = "idle"

----------------------------------------------------------------------------
\* The front ends: the Streamlit page (app/streamlit_app.py main) and the
\* command line (app/main.py main_async).

\* Clicks on "Generate Cover Letter" in one Streamlit session.
MaxClicks == 2

\* What the user can enter as a URL: nothing, or a URL.
Urls == {"", "https://acme.example"}

\* The answers the model considers for the agent's response.
AppContents ==
    {[status |-> "success", message |-> <<"a">>],
     [status |-> "error", message |-> <<"a", "\n">>],
     [status |-> "error", message |-> <<"}">>]}

\* The texts call_agent_async can return: an answer's JSON text, or the
\* empty string when no final response came.
AgentTexts == {JsonDumps(c) : c \in AppContents} \cup {<<>>}

\* How the agent's run ends for the front end: it returns a text, or raises.
Returns(text) == [raises |-> "", text |-> text]

Raises(kind) == [raises |-> kind, text |-> <<>>]

RunOutcomes ==
    {Returns(t) : t \in AgentTexts} \cup {Raises(k) : k \in {"RuntimeError", "Exception"}}

\* No attempt has ended since the last accepted click.
NoOutcome == Raises("<pending>")

\* streamlit_app.main: utils.save_uploaded_file raises (the temporary file
\* cannot be written), so temp_file_path is never assigned.
SaveFails == Raises("OSError")

\* How a generation attempt of a Streamlit page can end.
AttemptOutcomes(fe) == IF fe = "streamlit_app" THEN RunOutcomes \cup {SaveFails} ELSE RunOutcomes

NoError == [error |-> FALSE, message |-> ""]

\* Nothing on the page.
Blank ==
    [success |-> FALSE, letter |-> <<>>, failure |-> FALSE, reason |-> <<>>,
     error |-> FALSE, warning |-> FALSE, no_response |-> FALSE, traceback |-> FALSE]

\* The script run ended by an exception nothing caught: Streamlit shows the
\* traceback, and what the script had not rendered yet is missing.
Traceback == [Blank EXCEPT !.traceback = TRUE]

\* bool(d) of a dictionary
TruthyDict(d) == DOMAIN d # {}

\* streamlit_app.main, "SHOW RESULT IF AVAILABLE" and "ERROR MESSAGE": what
\* the page shows for the session state.
Page(result, err, warning) ==
    [success |-> TruthyDict(result) /\ Get(result, "status", "") = "success",
     letter |-> IF TruthyDict(result) /\ Get(result, "status", "") = "success"
                THEN Get(result, "cover_letter", <<>>) ELSE <<>>,
     failure |-> TruthyDict(result) /\ Get(result, "status", "") = "error",
     reason |-> IF TruthyDict(result) /\ Get(result, "status", "") = "error"
                THEN Get(result, "failure_reason", <<>>) ELSE <<>>,
     error |-> err.error,
     warning |-> warning,
     no_response |-> FALSE,
     traceback |-> FALSE]

\* streamlit_vrtx.main: the notice shown for an empty response.
EmptyNotice == <<"The response from the agent is empty! Check logs for more details.">>

\* streamlit_vrtx.main, "SHOW RESULT IF AVAILABLE" and "ERROR MESSAGE": the
\* session state holds the response string, which is loaded here; load_json
\* raising ends the script run.
PageVrtx(result, err, warning) ==
    IF result = <<>>
    THEN [Blank EXCEPT !.error = err.error, !.warning = warning]
    ELSE IF LoadJsonRaises(result)
    THEN [Traceback EXCEPT !.warning = warning]
    ELSE LET agent_result == load_json(result)
         IN  [success |-> Get(agent_result, "status", "") = "success",
              letter |-> IF Get(agent_result, "status", "") = "success"
                         THEN Get(agent_result, "message", <<>>) ELSE <<>>,
              failure |-> ~TruthyDict(agent_result)
                              \/ Get(agent_result, "status", "") = "error",
              reason |-> IF ~TruthyDict(agent_result) THEN EmptyNotice
                         ELSE IF Get(agent_result, "status", "") = "error"
                         THEN Get(agent_result, "message", <<>>) ELSE <<>>,
              error |-> err.error,
              warning |-> warning,
              no_response |-> FALSE,
              traceback |-> FALSE]

\* What the Streamlit page of front end fe shows for the session state.
PageOf(fe, result, err, warning) ==
    IF fe = "streamlit_vrtx" THEN PageVrtx(result, err, warning)
    ELSE Page(result, err, warning)

\* main_async, "THE AGENT RESPONSE": what is printed for the loaded response.
Printed(response) ==
    IF TruthyDict(response)
    THEN [Blank EXCEPT !.success = (Get(response, "status", None) = "success"),
                       !.letter = IF Get(response, "status", None) = "success"
                                  THEN Get(response, "message", None) ELSE <<>>,
                       !.failure = (Get(response, "status", None) = "error"),
                       !.reason = IF Get(response, "status", None) = "error"
                                  THEN Get(response, "message", None) ELSE <<>>]
    ELSE [Blank EXCEPT !.no_response = TRUE]

\* No front end is in use.
AppIdle ==
    /\ frontend = "main"
    /\ company_url = ""
    /\ job_role_url = ""
    /\ generating = FALSE
    /\ generated_cover_letter = EmptyDict
    /\ is_error = NoError
    /\ app_pc = "ready"
    /\ clicks = 0
    /\ runs = 0
    /\ agent_response = <<>>
    /\ shown = Blank
    /\ accepted = 0
    /\ last_outcome = NoOutcome

----------------------------------------------------------------------------
TypeOK ==
    /\ root \in {"SequentialAgent", "CoverLetterAgent"}
    /\ generator_kind \in {"LlmAgent", "SafeLlmAgent"}
    /\ utils_module \in {"utils", "app.utils"}
    /\ pc \in {"Idle", "Extracting", "Aggregating", "Failed", "Done"}
    /\ tstate \in [Tasks -> {"idle", "running", "done", "raised", "cancelled"}]
    /\ gstate \in {"idle", "running", "done", "raised"}
    /\ steps \in [Agents -> 0..MaxSteps]
    /\ starts \in [Agents -> Nat]
    /\ DOMAIN state = Keys
    /\ writes \in [Keys -> Nat]
    /\ \A k \in Keys : writers[k] \subseteq Agents
    /\ join_aborted \in BOOLEAN
    /\ call \in {"running", "returned", "raised"}
    /\ order \in Seq(Tasks)

\* A session in which nothing has run yet.
RunIdle ==
    /\ pc = "Idle"
    /\ tstate = [t \in Tasks |-> "idle"]
    /\ gstate = "idle"
    /\ steps = [a \in Agents |-> 0]
    /\ starts = [a \in Agents |-> 0]
    /\ state = [k \in Keys |-> EmptyText]
    /\ writes = [k \in Keys |-> 0]
    /\ writers = [k \in Keys |-> {}]
    /\ gen_text = EmptyText
    /\ error_msg = NoMsg
    /\ exc = NoExc
    /\ join_aborted = FALSE
    /\ final_response_text = EmptyText
    /\ final_author = ""
    /\ call = "running"
    /\ order = <<>>

\* call_agent_async is not called on a stream of its own.
CallerIdle ==
    /\ caller_module = "utils"
    /\ events = <<>>
    /\ stream_raises = FALSE
    /\ cursor = 1
    /\ response_text = <<>>
    /\ caller_pc = "idle"

\* The string, dictionary or None found under an output key.
NoneValue == [type |-> "none", text |-> <<>>, dict |-> <<>>]

StrValue(text) == [type |-> "str", text |-> text, dict |-> <<>>]

DictValue(d) == [type |-> "dict", text |-> <<>>, dict |-> d]

\* No logging callback is called on its own.
CallbackIdle ==
    /\ cb_variant = "app.utils"
    /\ cb_agent = "company_web_researcher"
    /\ cb_output = NoneValue
    /\ cb_pc = "idle"
    /\ cb_exc = ""
    /\ cb_logged = ""

LaterIdle == CallerIdle /\ CallbackIdle

\* No SafeLlmAgent is run on its own.
SafeIdle ==
    /\ safe_name = Generator
    /\ safe_output_key = output_key(Generator)
    /\ safe_pc = "idle"
    /\ yielded = 0
    /\ safe_final = EmptyText
    /\ saved = EmptyText
    /\ safe_cause = NoExc
    /\ safe_exc = NoExc

\* The pipeline as agent.py wires it, not started.
PipelineIdle ==
    /\ root = "SequentialAgent"
    /\ generator_kind = "LlmAgent"
    /\ utils_module = "utils"
    /\ RunIdle

Init ==
    /\ root \in {"SequentialAgent", "CoverLetterAgent"}
    /\ generator_kind \in {"LlmAgent", "SafeLlmAgent"}
    /\ (root = "SequentialAgent" => generator_kind = "LlmAgent")
    /\ utils_module \in {"utils", "app.utils"}
    /\ RunIdle
    /\ ToolsIdle
    /\ JsonIdle
    /\ AppIdle
    /\ SafeIdle
    /\ LaterIdle

\* The runner starts the root agent: it enters research_team's run.
Start ==
    /\ pc = "Idle"
    /\ pc' = "Extracting"
    /\ UNCHANGED <<outside, order, root, generator_kind, utils_module, tstate, gstate, steps, starts,
                   state, writes, writers, gen_text, error_msg, exc, join_aborted,
                   final_response_text, final_author, call>>

\* The parallel team starts all its sub-agents.
Launch ==
    /\ pc = "Extracting"
    /\ \A t \in Tasks : tstate[t] = "idle"
    /\ tstate' = [t \in Tasks |-> "running"]
    /\ starts' = [a \in Agents |-> IF a \in Tasks THEN starts[a] + 1 ELSE starts[a]]
    /\ UNCHANGED <<outside, order, root, generator_kind, utils_module, pc, gstate, steps,
                   state, writes, writers, gen_text, error_msg, exc, join_aborted,
                   final_response_text, final_author, call>>

\* Exception e leaves the research team's run with the sub-agents in states ts:
\* the iteration over the team's events is over, so the sub-agents still
\* running are never resumed; the root agent handles e or lets it through.
LeaveTeam(e, ts) ==
    /\ join_aborted' = TRUE
    /\ tstate' = [t \in Tasks |-> IF ts[t] = "running" THEN "cancelled" ELSE ts[t]]
    /\ IF Caught(TeamRaise(e))
       THEN /\ pc' = "Failed"
            /\ error_msg' = ErrorMsg(TeamRaise(e))
            /\ exc' = exc
       ELSE /\ pc' = "Done"
            /\ error_msg' = error_msg
            /\ exc' = TeamRaise(e)

\* The team's own run raises before any sub-agent has started.
JoinFault(r) ==
    /\ pc = "Extracting"
    /\ \A t \in Tasks : tstate[t] = "idle"
    /\ LeaveTeam(Exception(r), tstate)
    /\ UNCHANGED <<outside, order, root, generator_kind, utils_module, gstate, steps, starts,
                   state, writes, writers, gen_text,
                   final_response_text, final_author, call>>

\* An extraction agent emits an event that is not its final response.
TaskStep(t) ==
    /\ pc = "Extracting"
    /\ tstate[t] = "running"
    /\ steps[t] < MaxSteps
    /\ steps' = [steps EXCEPT ![t] = @ + 1]
    /\ UNCHANGED <<outside, order, root, generator_kind, utils_module, pc, tstate, gstate, starts,
                   state, writes, writers, gen_text, error_msg, exc, join_aborted,
                   final_response_text, final_author, call>>

\* An extraction agent ends with its final response: the text is saved under
\* the agent's output_key and the event reaches the caller.
TaskFinish(t, out) ==
    /\ pc = "Extracting"
    /\ tstate[t] = "running"
    /\ tstate' = [tstate EXCEPT ![t] = "done"]
    /\ state' = [state EXCEPT ![output_key(t)] = out]
    /\ writes' = [writes EXCEPT ![output_key(t)] = @ + 1]
    /\ writers' = [writers EXCEPT ![output_key(t)] = @ \cup {t}]
    /\ final_response_text' = Accumulate(out)
    /\ final_author' = IF Accumulates(out) THEN t ELSE final_author
    /\ order' = Append(order, t)
    /\ UNCHANGED <<outside, root, generator_kind, utils_module, pc, gstate, steps, starts,
                   gen_text, error_msg, exc, join_aborted, call>>

\* An extraction agent's run raises (tool, service or model fault).
TaskRaise(t, r) ==
    /\ pc = "Extracting"
    /\ tstate[t] = "running"
    /\ LeaveTeam(LlmRaise(TaskKind, t, Exception(r)), [tstate EXCEPT ![t] = "raised"])
    /\ UNCHANGED <<outside, order, root, generator_kind, utils_module, gstate, steps, starts,
                   state, writes, writers, gen_text,
                   final_response_text, final_author, call>>

\* The research team's run is over without an exception: the generator runs.
StartGenerator ==
    /\ GeneratorMayStart
    /\ pc' = "Aggregating"
    /\ gstate' = "running"
    /\ starts' = [starts EXCEPT ![Generator] = @ + 1]
    /\ UNCHANGED <<outside, order, root, generator_kind, utils_module, tstate, steps,
                   state, writes, writers, gen_text, error_msg, exc, join_aborted,
                   final_response_text, final_author, call>>

GenStep ==
    /\ pc = "Aggregating"
    /\ gstate = "running"
    /\ steps[Generator] < MaxSteps
    /\ steps' = [steps EXCEPT ![Generator] = @ + 1]
    /\ UNCHANGED <<outside, order, root, generator_kind, utils_module, pc, tstate, gstate, starts,
                   state, writes, writers, gen_text, error_msg, exc, join_aborted,
                   final_response_text, final_author, call>>

\* The generator ends with its final response, and the root agent's run ends.
GenFinish(out) ==
    /\ pc = "Aggregating"
    /\ gstate = "running"
    /\ gstate' = "done"
    /\ pc' = "Done"
    /\ gen_text' = out
    /\ state' = [state EXCEPT ![output_key(Generator)] = out]
    /\ writes' = [writes EXCEPT ![output_key(Generator)] = @ + 1]
    /\ writers' = [writers EXCEPT ![output_key(Generator)] = @ \cup {Generator}]
    /\ final_response_text' = Accumulate(out)
    /\ final_author' = IF Accumulates(out) THEN Generator ELSE final_author
    /\ UNCHANGED <<outside, order, root, generator_kind, utils_module, tstate, steps, starts,
                   error_msg, exc, join_aborted, call>>

\* The generator's run raises.
GenRaise(r) ==
    /\ pc = "Aggregating"
    /\ gstate = "running"
    /\ gstate' = "raised"
    /\ IF Caught(LlmRaise(generator_kind, Generator, Exception(r)))
       THEN /\ pc' = "Failed"
            /\ error_msg' = ErrorMsg(LlmRaise(generator_kind, Generator, Exception(r)))
            /\ exc' = exc
       ELSE /\ pc' = "Done"
            /\ error_msg' = error_msg
            /\ exc' = LlmRaise(generator_kind, Generator, Exception(r))
    /\ UNCHANGED <<outside, order, root, generator_kind, utils_module, tstate, steps, starts,
                   state, writes, writers, gen_text, join_aborted,
                   final_response_text, final_author, call>>

\* CoverLetterAgent's handler has printed error_msg; it yields nothing and
\* the run ends.
Stop ==
    /\ pc = "Failed"
    /\ pc' = HandlerNext
    /\ UNCHANGED <<outside, order, root, generator_kind, utils_module, tstate, gstate, steps, starts,
                   state, writes, writers, gen_text, error_msg, exc, join_aborted,
                   final_response_text, final_author, call>>

\* call_agent_async leaves its loop: utils.py catches any exception and
\* returns the accumulator, app/utils.py lets the exception through.
Return ==
    /\ pc = "Done"
    /\ call = "running"
    /\ call' = IF exc = NoExc \/ utils_module = "utils" THEN "returned" ELSE "raised"
    /\ UNCHANGED <<outside, order, root, generator_kind, utils_module, pc, tstate, gstate, steps, starts,
                   state, writes, writers, gen_text, error_msg, exc, join_aborted,
                   final_response_text, final_author>>

Next ==
    \/ Start
    \/ Launch
    \/ \E r \in Reasons : JoinFault(r)
    \/ \E t \in Tasks : TaskStep(t)
    \/ \E t \in Tasks : \E out \in Outputs(t) : TaskFinish(t, out)
    \/ \E t \in Tasks : \E r \in Reasons : TaskRaise(t, r)
    \/ StartGenerator
    \/ GenStep
    \/ \E out \in GeneratorOutputs : GenFinish(out)
    \/ \E r \in Reasons : GenRaise(r)
    \/ Stop
    \/ Return

Spec == Init /\ [][Next]_vars

----------------------------------------------------------------------------
\* Vocabulary of the properties.

\* The entry of StageOutput that belongs to extraction agent t.
Entry(t) == state[output_key(t)]

\* t failed: its entry reports status "error", or its run raised.
TaskFailed(t) == tstate[t] = "raised" \/ Entry(t).status = "error"

FailingTasks == {t \in Tasks : TaskFailed(t)}

\* All three extraction agents resolved to a success entry.
AllSuccess == \A t \in Tasks : tstate[t] = "done" /\ Entry(t).status = "success"

\* The run ended by returning a generator answer with status "success".
EndsWithLetter ==
    call = "returned" /\ final_author = Generator /\ final_response_text.status = "success"

----------------------------------------------------------------------------
C2_ResultUnmodified ==
    (call # "running" /\ AllSuccess /\ gstate = "done")
        => /\ starts[Generator] = 1
           /\ call = "returned"
           /\ final_author = Generator
           /\ final_response_text = gen_text

\* C2 (amended): with all three extraction agents successful the generator is
\* invoked exactly once (and never more than once in any run); when it ends
\* with a final response whose text is not blank, the caller gets that text
\* with its surrounding white space stripped.
C2_ResultStripped ==
    /\ starts[Generator] <= 1
    /\ (AllSuccess /\ pc \in {"Aggregating", "Failed", "Done"}) => starts[Generator] = 1
    /\ (call # "running" /\ AllSuccess /\ gstate = "done" /\ Strip(gen_text).status # "none")
          => /\ call = "returned"
             /\ final_author = Generator
             /\ final_response_text = Strip(gen_text)

\* The generator answered a letter with white space around it, and the call
\* returned.
C2_Witness ==
    /\ call = "returned"
    /\ AllSuccess
    /\ gstate = "done"
    /\ gen_text.pad
    /\ gen_text.status = "success"

\* The failure text of a failing extraction agent: the message of its error
\* entry, or the message of the exception its run raised.
FailReason(t) ==
    IF tstate[t] = "raised"
    THEN (IF exc # NoExc THEN exc.message ELSE error_msg.message)
    ELSE Entry(t).message

\* C3: for every non-empty set of failing extraction agents the terminal
\* result (here under CoverLetterAgent) is an Error of the pipeline, not an
\* extraction agent's own answer, whose reason carries the failure text of
\* every failing agent.
C3_ErrorNamesEveryFailure ==
    (root = "CoverLetterAgent" /\ call # "running" /\ FailingTasks # {})
        => /\ call = "returned"
           /\ final_author \notin Tasks
           /\ final_response_text.status = "error"
           /\ \A t \in FailingTasks : final_response_text.message = FailReason(t)

\* C4: an extraction agent that was started (here under SafeParallelAgent) is
\* never cancelled or abandoned because a sibling failed: it stays running
\* until it resolves by itself.
C4_NoSiblingCancelled ==
    root = "CoverLetterAgent" => \A t \in Tasks : tstate[t] # "cancelled"

\* C5: the generator is started only after every extraction agent of the
\* research team has resolved, and while the generator runs no extraction
\* agent is running.
C5_AggregationAfterFanOut ==
    /\ (gstate # "idle" \/ starts[Generator] > 0 \/ pc = "Aggregating")
          => \A t \in Tasks : tstate[t] = "done"
    /\ gstate = "running" => \A t \in Tasks : tstate[t] # "running"

\* The generator is running and has emitted an event.
C5_Witness ==
    gstate = "running" /\ steps[Generator] = MaxSteps /\ pc = "Aggregating"

\* C6: every extraction agent (here a SafeLlmAgent) whose run is over has
\* resolved to a TaskResult in its output: no fault leaves it as a raised
\* exception.
C6_TaskAlwaysResolves ==
    root = "CoverLetterAgent" =>
        \A t \in Tasks :
            tstate[t] \notin {"idle", "running", "cancelled"}
                => tstate[t] = "done" /\ Entry(t).status \in {"success", "error"}

\* C7: under CoverLetterAgent no extraction agent's fault aborts the research
\* team's join, and no exception leaves the root agent's run.
C7_NoFaultEscapes ==
    root = "CoverLetterAgent"
        => /\ ~(join_aborted /\ \E t \in Tasks : tstate[t] = "raised")
           /\ exc = NoExc

\* The failure text of a failed generator.
GenFailReason ==
    IF gstate = "raised"
    THEN (IF exc # NoExc THEN exc.message ELSE error_msg.message)
    ELSE gen_text.message

\* C8: when the generator fails after three successful extractions (its run
\* raises, or it answers with status "error"), the caller still gets a
\* terminal Error of the generator carrying the generator's own reason.
C8_AggregationErrorReturned ==
    (call # "running" /\ AllSuccess
        /\ (gstate = "raised" \/ (gstate = "done" /\ gen_text.status = "error")))
        => /\ call = "returned"
           /\ final_author = Generator
           /\ final_response_text.status = "error"
           /\ final_response_text.message = GenFailReason

\* The transitions of the spec's state machine.
C9_Edges ==
    {<<"Idle", "Extracting">>, <<"Extracting", "Aggregating">>, <<"Aggregating", "Done">>,
     <<"Extracting", "Failed">>, <<"Failed", "Done">>}

\* The forward transitions the code adds: the handler entered from the
\* generator's loop, and a run ended from Extracting by an exception that no
\* handler takes.
C9_ExceptionEdges == {<<"Aggregating", "Failed">>, <<"Extracting", "Done">>}

----------------------------------------------------------------------------
\* The three extraction agents in the reverse of their order in sub_agents.
C11_ReverseOrder ==
    <<"cv_parcer_agent", "job_description_extractor_agent", "company_web_researcher">>

----------------------------------------------------------------------------
\* A text of the two-field shape: status "success" or "error", and a
\* populated message.
C12_Shaped(text) == text.status \in {"success", "error"} /\ text.message # ""

\* C12: the result of every extraction agent whose run is over, and the
\* result the caller gets once the call is over, has status "success" or
\* "error" and a non-empty message.
C12_ResultShape ==
    /\ \A t \in Tasks : tstate[t] \in {"done", "raised"} => C12_Shaped(Entry(t))
    /\ call # "running" => call = "returned" /\ C12_Shaped(final_response_text)

----------------------------------------------------------------------------
\* The extraction tools on their own: one call of extract_web_content and
\* one call of read_pdf, for every outcome of Tavily and every PDF.

PageLists == UNION {[1..n -> PageTexts] : n \in 0..MaxPages}

ToolInit ==
    /\ PipelineIdle
    /\ LaterIdle
    /\ JsonIdle
    /\ AppIdle
    /\ SafeIdle
    /\ tavily \in TavilyOutcomes
    /\ tool_pc = "idle"
    /\ tool_result = NoResult
    /\ tool_exc = ""
    /\ file_exists \in BOOLEAN
    /\ pages \in PageLists
    /\ (file_exists <=> pages # <<>>)
    /\ pdf_pc = "idle"
    /\ pdf_text = <<>>

\* extract_web_content(url, extract_depth, output_format)
ExtractWebContent ==
    /\ tool_pc = "idle"
    /\ IF ExtractRaises(tavily)
       THEN /\ tool_pc' = "raised"
            /\ tool_exc' = "IndexError"
            /\ tool_result' = tool_result
       ELSE /\ tool_pc' = "returned"
            /\ tool_exc' = tool_exc
            /\ tool_result' = ExtractResult(tavily)
    /\ UNCHANGED <<laterVars, pipeVars, jsonVars, appVars, safeVars, tavily, file_exists, pages, pdf_pc, pdf_text>>

\* read_pdf(file_name)
ReadPdf ==
    /\ pdf_pc = "idle"
    /\ IF file_exists
       THEN /\ pdf_pc' = "returned"
            /\ pdf_text' = ReadPdfText(pages)
       ELSE /\ pdf_pc' = "raised"
            /\ pdf_text' = pdf_text
    /\ UNCHANGED <<laterVars, pipeVars, jsonVars, appVars, safeVars, tavily, tool_pc, tool_result, tool_exc, file_exists, pages>>

ToolNext == ExtractWebContent \/ ReadPdf

ToolSpec == ToolInit /\ [][ToolNext]_vars

\* The url's page has no content: Tavily reports no failure, and no result
\* or a result whose raw_content is missing or empty.
C13_NoWebContent ==
    /\ ~tavily.raises
    /\ tavily.failed_results = <<>>
    /\ (tavily.results # <<>> => tavily.results[1].raw_content \in {None, ""})

\* C13: an extraction that yields no content ends as an error with a reason:
\* extract_web_content on a page without content returns status "error" with
\* a non-empty error_message, and read_pdf never returns an empty text.
C13_EmptyIsError ==
    /\ (tool_pc # "idle" /\ C13_NoWebContent)
          => /\ tool_pc = "returned"
             /\ tool_result.status = "error"
             /\ tool_result.error_message \notin {None, ""}
    /\ pdf_pc = "returned" => pdf_text # <<>>

\* C21: for every outcome of the Tavily client extract_web_content returns a
\* dictionary, status "success" with web_content or status "error" with
\* error_message, and it never raises.
C21_AlwaysADictionary ==
    tool_pc # "idle"
        => /\ tool_pc = "returned"
           /\ \/ tool_result.status = "success" /\ "web_content" \in DOMAIN tool_result
              \/ tool_result.status = "error" /\ "error_message" \in DOMAIN tool_result

----------------------------------------------------------------------------
\* The wire form on its own: a ResponseContent is serialized and the text is
\* given to load_json.

JsonInit ==
    /\ PipelineIdle
    /\ LaterIdle
    /\ ToolsIdle
    /\ AppIdle
    /\ SafeIdle
    /\ content \in Contents
    /\ data = <<>>
    /\ loaded = EmptyDict
    /\ json_pc = "idle"

\* The agent answers with the JSON text of content.
Serialize ==
    /\ json_pc = "idle"
    /\ data' = JsonDumps(content)
    /\ json_pc' = "dumped"
    /\ UNCHANGED <<laterVars, pipeVars, toolVars, appVars, safeVars, content, loaded>>

\* load_json(data)
LoadJson ==
    /\ json_pc = "dumped"
    /\ IF LoadJsonRaises(data)
       THEN json_pc' = "raised" /\ loaded' = loaded
       ELSE json_pc' = "loaded" /\ loaded' = load_json(data)
    /\ UNCHANGED <<laterVars, pipeVars, toolVars, appVars, safeVars, content, data>>

JsonNext == Serialize \/ LoadJson

JsonSpec == JsonInit /\ [][JsonNext]_vars

\* C16: for every status and every message text, the JSON text of
\* {status, message} given to load_json comes back with the same status and
\* the same message.
C16_RoundTrip ==
    json_pc \notin {"idle", "dumped"}
        => /\ json_pc = "loaded"
           /\ Get(loaded, "status", None) = content.status
           /\ Get(loaded, "message", None) = content.message

----------------------------------------------------------------------------
\* The front ends on their own: a Streamlit session of up to MaxClicks clicks,
\* or one run of main_async, with the agent's run reduced to how it ends.

AppInit ==
    /\ PipelineIdle
    /\ LaterIdle
    /\ JsonIdle
    /\ SafeIdle
    /\ frontend \in {"streamlit_app", "streamlit_vrtx", "main"}
    /\ tavily = TavilyRaises("")
    /\ tool_pc = "idle"
    /\ tool_result = NoResult
    /\ tool_exc = ""
    /\ file_exists \in BOOLEAN
    /\ pages \in PageLists
    /\ (file_exists <=> pages # <<>>)
    /\ pdf_pc = "idle"
    /\ pdf_text = <<>>
    /\ company_url = ""
    /\ job_role_url = ""
    /\ generating = FALSE
    /\ generated_cover_letter = EmptyDict
    /\ is_error = NoError
    /\ app_pc = "ready"
    /\ clicks = 0
    /\ runs = 0
    /\ agent_response = <<>>
    /\ shown = Blank
    /\ accepted = 0
    /\ last_outcome = NoOutcome

\* streamlit_app.main, a script run with the button clicked: a field is
\* missing and the page warns, or the flag is set and the script reruns.
StClick(cu, ju) ==
    /\ frontend \in {"streamlit_app", "streamlit_vrtx"}
    /\ app_pc = "ready"
    /\ ~generating
    /\ clicks < MaxClicks
    /\ clicks' = clicks + 1
    /\ company_url' = cu
    /\ job_role_url' = ju
    /\ IF cu = "" \/ ju = "" \/ ~file_exists
       THEN /\ shown' = PageOf(frontend, generated_cover_letter, is_error, TRUE)
            /\ UNCHANGED <<generating, is_error, app_pc, accepted, last_outcome>>
       ELSE /\ generating' = TRUE
            /\ is_error' = NoError
            /\ app_pc' = "generating"
            /\ shown' = Blank
            /\ accepted' = accepted + 1
            /\ last_outcome' = NoOutcome
    /\ UNCHANGED <<laterVars, pipeVars, toolVars, jsonVars, safeVars, frontend, generated_cover_letter, runs,
                   agent_response>>

\* What the generating block stores under generated_cover_letter when the
\* agent's run returns text: streamlit_app stores load_json(text), and
\* nothing when load_json raises; streamlit_vrtx stores the text.
Stored(fe, text, before) ==
    IF fe = "streamlit_vrtx" THEN text
    ELSE IF LoadJsonRaises(text) THEN before
    ELSE load_json(text)

\* streamlit_app.main and streamlit_vrtx.main, the script run with the flag
\* set: the agent runs and its result is saved; finally the flag is reset and
\* the script reruns, whatever was raised. When save_uploaded_file has
\* raised, streamlit_app's finally block raises on temp_file_path before it
\* resets the flag: the script run ends with the flag set, and the next
\* script run enters the block again.
StGenerate(o) ==
    /\ frontend \in {"streamlit_app", "streamlit_vrtx"}
    /\ app_pc = "generating"
    /\ generating
    /\ o \in AttemptOutcomes(frontend)
    /\ runs <= MaxClicks
    /\ runs' = runs + 1
    /\ last_outcome' = o
    /\ agent_response' = IF o.raises = "" THEN o.text ELSE agent_response
    /\ generated_cover_letter' =
          IF o.raises = "" THEN Stored(frontend, o.text, generated_cover_letter)
          ELSE generated_cover_letter
    /\ is_error' =
          IF o.raises = "RuntimeError" THEN [error |-> TRUE, message |-> o.raises]
          ELSE is_error
    /\ IF o = SaveFails
       THEN /\ shown' = Traceback
            /\ UNCHANGED <<generating, app_pc>>
       ELSE /\ generating' = FALSE
            /\ app_pc' = "rerun"
            /\ shown' = shown
    /\ UNCHANGED <<laterVars, pipeVars, toolVars, jsonVars, safeVars, frontend, company_url, job_role_url,
                   clicks, accepted>>

\* streamlit_app.main, the script run after the rerun: the page shows the
\* session state.
StRender ==
    /\ frontend \in {"streamlit_app", "streamlit_vrtx"}
    /\ app_pc = "rerun"
    /\ shown' = PageOf(frontend, generated_cover_letter, is_error, FALSE)
    /\ app_pc' = "ready"
    /\ UNCHANGED <<laterVars, pipeVars, toolVars, jsonVars, safeVars, frontend, company_url, job_role_url,
                   generating, generated_cover_letter, is_error, clicks, runs,
                   agent_response, accepted, last_outcome>>

\* main_async up to the agent call: the URLs are read and get_prompt reads
\* the PDF; a missing file raises FileNotFoundError.
MainPrompt(cu, ju) ==
    /\ frontend = "main"
    /\ app_pc = "ready"
    /\ company_url' = cu
    /\ job_role_url' = ju
    /\ IF file_exists
       THEN /\ pdf_pc' = "returned"
            /\ pdf_text' = ReadPdfText(pages)
            /\ app_pc' = "generating"
       ELSE /\ pdf_pc' = "raised"
            /\ pdf_text' = pdf_text
            /\ app_pc' = "raised"
    /\ UNCHANGED <<laterVars, pipeVars, jsonVars, safeVars, tavily, tool_pc, tool_result, tool_exc, file_exists,
                   pages, frontend, generating, generated_cover_letter, is_error,
                   clicks, runs, agent_response, shown, accepted, last_outcome>>

\* main_async from the agent call on: the response is loaded and printed.
MainRespond(o) ==
    /\ frontend = "main"
    /\ app_pc = "generating"
    /\ runs' = runs + 1
    /\ agent_response' = IF o.raises = "" THEN o.text ELSE agent_response
    /\ IF o.raises # "" \/ LoadJsonRaises(o.text)
       THEN /\ app_pc' = "raised"
            /\ shown' = shown
       ELSE /\ app_pc' = "done"
            /\ shown' = Printed(load_json(o.text))
    /\ UNCHANGED <<laterVars, pipeVars, toolVars, jsonVars, safeVars, frontend, company_url, job_role_url,
                   generating, generated_cover_letter, is_error, clicks, accepted,
                   last_outcome>>

AppNext ==
    \/ \E cu \in Urls, ju \in Urls : StClick(cu, ju)
    \/ \E o \in RunOutcomes \cup {SaveFails} : StGenerate(o)
    \/ StRender
    \/ \E cu \in Urls, ju \in Urls : MainPrompt(cu, ju)
    \/ \E o \in RunOutcomes : MainRespond(o)

AppSpec == AppInit /\ [][AppNext]_vars

\* C14: the pipeline is started only with the company URL, the job URL and
\* the CV document all present.
C14_StartedOnlyWithInputs ==
    (app_pc = "generating" \/ generating)
        => company_url # "" /\ job_role_url # "" /\ file_exists

\* The terminal result the front end last received, as load_json reads it.
C15_Result == IF LoadJsonRaises(agent_response) THEN EmptyDict ELSE load_json(agent_response)

\* C15: whenever the front end shows a letter, it is the message of the
\* terminal result with status "success", and whenever it shows a failure
\* reason, it is the message of the terminal result with status "error".
C15_ShownAsIs ==
    /\ shown.success
          => /\ Get(C15_Result, "status", None) = "success"
             /\ shown.letter = Get(C15_Result, "message", None)
    /\ shown.failure
          => /\ Get(C15_Result, "status", None) = "error"
             /\ shown.reason = Get(C15_Result, "message", None)

\* C25: in a Streamlit session the generating flag is True exactly from an
\* accepted click until that attempt has ended, no attempt runs without its
\* click (at most one in flight), and once an attempt has ended, with a
\* result, a RuntimeError or any other exception, the flag is False again.
C25_FlagBracketsTheRun ==
    frontend # "main"
        => /\ generating <=> accepted = runs + 1
           /\ runs <= accepted
           /\ last_outcome # NoOutcome => ~generating

\* The outcome panels on the page: the success panel, the failure panel and
\* the exception error message.
C26_Panels ==
    (IF shown.success THEN 1 ELSE 0) + (IF shown.failure THEN 1 ELSE 0)
        + (IF shown.error THEN 1 ELSE 0)

\* C26: once a generation attempt is over and the page is rendered, it shows
\* exactly one of the success panel, the failure panel and the exception
\* error message.
C26_ExactlyOneOutcome ==
    (frontend # "main" /\ app_pc = "ready" /\ runs > 0) => C26_Panels = 1

\* What the most recent attempt gave the page to show: the loaded result of
\* the text it returned, nothing when it ended by an exception or is not
\* over.
C27_Latest ==
    IF last_outcome.raises # "" \/ LoadJsonRaises(last_outcome.text) THEN EmptyDict
    ELSE load_json(last_outcome.text)

\* C27: a letter or a failure reason on a Streamlit page is the one of the
\* most recent attempt: the status shown is that attempt's, so neither a new
\* attempt nor an attempt ended by an exception leaves an earlier result on
\* display.
C27_NoStaleResult ==
    frontend # "main"
        => /\ shown.success => Get(C27_Latest, "status", None) = "success"
           /\ (shown.failure /\ shown.reason # EmptyNotice)
                  => Get(C27_Latest, "status", None) = "error"

----------------------------------------------------------------------------
\* The decision a run has taken once it has left Extracting.
C17_Decision == IF starts[Generator] > 0 THEN "invoke" ELSE "short-circuit"

\* The decision as a function of the outcomes of the extraction agents.
C17_DecisionOf(outcomes) ==
    IF \A t \in Tasks : outcomes[t] = "done" THEN "invoke" ELSE "short-circuit"

\* C17: the decision to invoke the generator or to short-circuit is a
\* function of the extraction agents' outcomes alone (invoke exactly when all
\* three finished without raising): it depends neither on the order in which
\* they finished, nor on the events they emitted, nor on the caller.
C17_DecisionByOutcomes ==
    pc \in {"Aggregating", "Failed", "Done"} => C17_Decision = C17_DecisionOf(tstate)

\* The generator was invoked in a run whose agents finished in reverse order
\* after emitting intermediate events, the CV parser with an error entry.
C17_Witness ==
    /\ pc = "Aggregating"
    /\ order = C11_ReverseOrder
    /\ \A t \in Tasks : steps[t] = MaxSteps
    /\ Entry("cv_parcer_agent").status = "error"
    /\ C17_Decision = "invoke"

\* C18: the text call_agent_async returns is never the answer of an
\* extraction agent, also when the run stopped before the generator's final
\* response.
C18_NeverRawExtraction ==
    call = "returned" => final_author \notin Tasks

----------------------------------------------------------------------------
\* SafeLlmAgent.run_live on its own, for each agent of the pipeline and with
\* its output_key set or not.

SafeInit ==
    /\ PipelineIdle
    /\ LaterIdle
    /\ ToolsIdle
    /\ JsonIdle
    /\ AppIdle
    /\ safe_name \in Agents
    /\ safe_output_key \in {output_key(safe_name), None}
    /\ safe_pc = "idle"
    /\ yielded = 0
    /\ safe_final = EmptyText
    /\ saved = EmptyText
    /\ safe_cause = NoExc
    /\ safe_exc = NoExc

\* The final texts the underlying run of agent a can end with.
SafeOutputs(a) == IF a = Generator THEN GeneratorOutputs ELSE Outputs(a)

\* run_live is entered: the underlying LlmAgent's run starts.
SafeStart ==
    /\ safe_pc = "idle"
    /\ safe_pc' = "running"
    /\ UNCHANGED <<laterVars, pipeVars, toolVars, jsonVars, appVars, safe_name, safe_output_key,
                   yielded, safe_final, saved, safe_cause, safe_exc>>

\* An event of the underlying run is yielded on.
SafeYield ==
    /\ safe_pc = "running"
    /\ yielded < MaxSteps
    /\ yielded' = yielded + 1
    /\ UNCHANGED <<laterVars, pipeVars, toolVars, jsonVars, appVars, safe_name, safe_output_key,
                   safe_pc, safe_final, saved, safe_cause, safe_exc>>

\* The underlying run ends with its final response, saved under the
\* output_key when there is one.
SafeFinish(out) ==
    /\ safe_pc = "running"
    /\ safe_pc' = "done"
    /\ safe_final' = out
    /\ saved' = IF safe_output_key # None THEN out ELSE saved
    /\ UNCHANGED <<laterVars, pipeVars, toolVars, jsonVars, appVars, safe_name, safe_output_key,
                   yielded, safe_cause, safe_exc>>

\* The underlying run raises Exception(r): the except block runs.
SafeRaise(r) ==
    /\ safe_pc = "running"
    /\ safe_cause' = Exception(r)
    /\ safe_exc' = SafeLlmRaise(safe_name, safe_output_key, Exception(r))
    /\ safe_pc' = IF SafeLlmRaise(safe_name, safe_output_key, Exception(r)) = NoExc
                  THEN "done" ELSE "raised"
    /\ UNCHANGED <<laterVars, pipeVars, toolVars, jsonVars, appVars, safe_name, safe_output_key,
                   yielded, safe_final, saved>>

SafeNext ==
    \/ SafeStart
    \/ SafeYield
    \/ \E out \in SafeOutputs(safe_name) : SafeFinish(out)
    \/ \E r \in Reasons : SafeRaise(r)

SafeSpec == SafeInit /\ [][SafeNext]_vars

\* C19: when the underlying run of a SafeLlmAgent has raised, with or without
\* an output_key, either an error output is saved or run_live has raised an
\* AgentExecutionError with the agent's name and the original message.
C19_FailureSurfaces ==
    safe_cause # NoExc
        => \/ saved.status = "error"
           \/ safe_exc = AgentExecutionError(safe_name, Str(safe_cause))

----------------------------------------------------------------------------
\* The pipeline under the scheduling of the event loop: a step that can be
\* taken is eventually taken, so every agent that was started resolves (it
\* finishes or raises) and the caller's loop ends.
FairSpec == Init /\ [][Next]_vars /\ WF_vars(Next)

\* C20: every run eventually reaches Done with a result delivered to the
\* caller: call_agent_async returns its final response text (it does not end
\* by raising).  Every started task resolves under FairSpec, by finishing or
\* by raising.
C20_EventuallyDelivered ==
    <>(pc = "Done" /\ call = "returned")

----------------------------------------------------------------------------
\* call_agent_async on its own (src/utils.py, src/app/utils.py): the loop
\* over the events of runner.run_async, each event given to
\* process_agent_response. An event is whether it is a final response and
\* the text of its last part (None: no content, no parts or no text).

\* Events of one stream.
MaxEvents == 2

EventTexts == {None, <<>>, <<" ">>, <<"a">>, <<" ", "a">>, <<"b", " ">>}

Events == [final : BOOLEAN, text : EventTexts]

Streams == UNION {[1..n -> Events] : n \in 0..MaxEvents}

\* bool(s) of a str or None
StrTruthy(s) == s # None /\ s # <<>>

\* process_agent_response(event)
process_agent_response(event) ==
    IF event.final /\ StrTruthy(event.text) THEN StrStrip(event.text) ELSE None

\* Mutant: only the first response is kept.
KeepsFirst(response) == StrTruthy(response) /\ response_text = <<>>

\* "if response:" of call_agent_async's loop
Keeps(response) == StrTruthy(response)

CallerInit ==
    /\ PipelineIdle
    /\ JsonIdle
    /\ AppIdle
    /\ SafeIdle
    /\ tavily = TavilyRaises("")
    /\ tool_pc = "idle"
    /\ tool_result = NoResult
    /\ tool_exc = ""
    /\ file_exists \in BOOLEAN
    /\ pages = <<>>
    /\ pdf_pc = "idle"
    /\ pdf_text = <<>>
    /\ CallbackIdle
    /\ caller_module \in {"utils", "app.utils"}
    /\ events \in Streams
    /\ stream_raises \in BOOLEAN
    /\ cursor = 1
    /\ response_text = <<>>
    /\ caller_pc = "idle"

\* call_agent_async up to its loop: src/utils.py raises FileNotFoundError for
\* a file that does not exist, src/app/utils.py takes no file.
CallStart ==
    /\ caller_pc = "idle"
    /\ caller_pc' = IF caller_module = "utils" /\ ~file_exists THEN "raised" ELSE "running"
    /\ UNCHANGED <<pipeVars, toolVars, jsonVars, appVars, safeVars, cbVars,
                   caller_module, events, stream_raises, cursor, response_text>>

\* One turn of the loop.
CallEvent ==
    /\ caller_pc = "running"
    /\ cursor <= Len(events)
    /\ LET response == process_agent_response(events[cursor])
       IN  response_text' = IF Keeps(response) THEN response ELSE response_text
    /\ cursor' = cursor + 1
    /\ UNCHANGED <<pipeVars, toolVars, jsonVars, appVars, safeVars, cbVars,
                   caller_module, events, stream_raises, caller_pc>>

\* The stream is over: it ended, or it raised. src/utils.py catches the
\* exception and returns the accumulator; src/app/utils.py closes the
\* generator and lets the exception through.
CallEnd ==
    /\ caller_pc = "running"
    /\ cursor > Len(events)
    /\ caller_pc' = IF stream_raises /\ caller_module = "app.utils"
                    THEN "raised" ELSE "returned"
    /\ UNCHANGED <<pipeVars, toolVars, jsonVars, appVars, safeVars, cbVars,
                   caller_module, events, stream_raises, cursor, response_text>>

CallerNext == CallStart \/ CallEvent \/ CallEnd

CallerSpec == CallerInit /\ [][CallerNext]_vars

RECURSIVE C22_LastNonEmpty(_)
\* The stripped text of the last event of evs that is a final response with
\* a text that is not empty; the empty string without such an event.
C22_LastNonEmpty(evs) ==
    IF evs = <<>> THEN <<>>
    ELSE LET ev == evs[Len(evs)]
         IN  IF ev.final /\ StrTruthy(ev.text) THEN StrStrip(ev.text)
             ELSE C22_LastNonEmpty(SubSeq(evs, 1, Len(evs) - 1))

RECURSIVE C22_LastNonBlank(_)
\* The same with "not empty" taken after stripping: the stripped text of the
\* last final response whose text holds more than white space.
C22_LastNonBlank(evs) ==
    IF evs = <<>> THEN <<>>
    ELSE LET ev == evs[Len(evs)]
         IN  IF ev.final /\ StrTruthy(ev.text) /\ StrStrip(ev.text) # <<>>
             THEN StrStrip(ev.text)
             ELSE C22_LastNonBlank(SubSeq(evs, 1, Len(evs) - 1))

\* C22 as stated: call_agent_async returns the stripped text of the last
\* final response with non-empty text, "" when the stream has none.
C22_ReturnsLastNonEmpty ==
    caller_pc = "returned" => response_text = C22_LastNonEmpty(events)

\* C22 amended: when call_agent_async returns, it returns the stripped text
\* of the last final response whose text is not blank, "" when the stream
\* has none; a final response of white space leaves the earlier text.
C22_ReturnsLastNonBlank ==
    caller_pc = "returned" => response_text = C22_LastNonBlank(events)

\* A final response with text, then a final response of white space: the
\* call has returned the first one's text.
C22_Witness ==
    /\ caller_pc = "returned"
    /\ events = <<[final |-> TRUE, text |-> <<" ", "a">>], [final |-> TRUE, text |-> <<" ">>]>>
    /\ response_text = <<"a">>

----------------------------------------------------------------------------
\* main_async's handling of the agent's response (app/main.py,
\* app/main_vertex.py): the string call_agent_async returned is given to
\* load_json and the loaded object is printed.

\* Response strings that are no JSON text of a ResponseContent: the empty
\* string, text without braces, an unclosed brace, braces around no object.
RawTexts ==
    {<<>>, <<"a">>, <<"{">>, <<"{", "a">>, <<"a", "}">>, <<"{", "}">>, <<"{", "a", "}">>}

\* The strings the agent's run can return.
ResponseTexts == {JsonDumps(c) : c \in Contents} \cup RawTexts

\* The agent call has returned agent_response.
ResultInit ==
    /\ PipelineIdle
    /\ LaterIdle
    /\ ToolsIdle
    /\ JsonIdle
    /\ SafeIdle
    /\ frontend = "main"
    /\ company_url = ""
    /\ job_role_url = ""
    /\ generating = FALSE
    /\ generated_cover_letter = EmptyDict
    /\ is_error = NoError
    /\ app_pc = "responded"
    /\ clicks = 0
    /\ runs = 1
    /\ agent_response \in ResponseTexts
    /\ shown = Blank
    /\ accepted = 0
    /\ last_outcome = NoOutcome

\* agent_response = utils.load_json(agent_response)
ResultLoad ==
    /\ app_pc = "responded"
    /\ data' = agent_response
    /\ IF LoadJsonRaises(agent_response)
       THEN /\ json_pc' = "raised"
            /\ loaded' = loaded
            /\ app_pc' = "raised"
       ELSE /\ json_pc' = "loaded"
            /\ loaded' = load_json(agent_response)
            /\ app_pc' = "loaded"
    /\ UNCHANGED <<laterVars, pipeVars, toolVars, safeVars, content, frontend, company_url,
                   job_role_url, generating, generated_cover_letter, is_error, clicks,
                   runs, agent_response, shown, accepted, last_outcome>>

\* The status and the message, or "No response from the agent!", are printed.
ResultPrint ==
    /\ app_pc = "loaded"
    /\ shown' = Printed(loaded)
    /\ app_pc' = "done"
    /\ UNCHANGED <<laterVars, pipeVars, toolVars, jsonVars, safeVars, frontend, company_url,
                   job_role_url, generating, generated_cover_letter, is_error, clicks,
                   runs, agent_response, accepted, last_outcome>>

ResultNext == ResultLoad \/ ResultPrint

ResultSpec == ResultInit /\ [][ResultNext]_vars

\* C23: for every response string the handling of the result never raises:
\* load_json returns the parsed object or {}, and what is printed is the
\* status with the message or "No response from the agent!".
C23_HandlingNeverRaises ==
    /\ app_pc # "raised"
    /\ json_pc # "raised"
    /\ app_pc = "done" => (shown.no_response <=> ~(shown.success \/ shown.failure))

----------------------------------------------------------------------------
\* The after-agent callbacks logging_agent_output_status: the one of
\* app/utils.py, and the ones of sub_agents/web_researcher/agent.py and
\* sub_agents/cv_parcer/agent.py. None of them assigns to the state or to the
\* agent's output; each ends with "return None" or by raising.

CbVariants == {"app.utils", "web_researcher", "cv_parcer"}

\* app/utils.py: the table output_keys
output_keys ==
    [cv_parcer_agent |-> "cv_info",
     job_information_agent |-> "job_role_information",
     company_web_researcher |-> "company_info"]

\* The agents a callback is called for: app/utils.py's callback reads the
\* name, the other two belong to one agent each.
CbAgents(variant) ==
    CASE variant = "app.utils" -> DOMAIN output_keys \cup {"job_description_extractor_agent"}
      [] variant = "web_researcher" -> {"company_web_researcher"}
      [] variant = "cv_parcer" -> {"cv_parcer_agent"}

\* What the state can hold under the output key: nothing, the agent's text
\* (JSON or not), or a dictionary with or without "status".
CbOutputs ==
    {NoneValue}
        \cup {StrValue(JsonDumps(c)) : c \in AppContents}
        \cup {StrValue(t) : t \in {<<>>, <<"a">>}}
        \cup {DictValue([status |-> st, message |-> <<"a">>]) : st \in Statuses}
        \cup {DictValue([message |-> <<"a">>]), DictValue(EmptyDict)}

\* str.upper() of a status
Upper(st) ==
    CASE st = "success" -> "SUCCESS"
      [] st = "error" -> "ERROR"
      [] OTHER -> st

CbReturned(logged) == [pc |-> "returned", exc |-> "", logged |-> logged]

CbRaised(e) == [pc |-> "raised", exc |-> e, logged |-> ""]

\* app/utils.py logging_agent_output_status: the table lookup and load_json
\* stand before the try block, whose handler takes KeyError and
\* AttributeError.
AppUtilsCallback(agent, out) ==
    IF agent \notin DOMAIN output_keys THEN CbRaised("KeyError")
    ELSE IF out.type = "str" /\ LoadJsonRaises(out.text) THEN CbRaised("AttributeError")
    ELSE LET output_dict == IF out.type = "str" THEN load_json(out.text) ELSE out.dict
         IN  IF out.type = "none" \/ "status" \notin DOMAIN output_dict
             THEN CbReturned("(Raw Output)")
             ELSE CbReturned(Upper(output_dict.status))

\* re.search(r'"status"\s*:\s*"([^\"]+)"', text): the status found, or None.
SearchStatus(text) ==
    IF \E i \in 1..Len(text), st \in Statuses : text[i] = Header(st)
    THEN CHOOSE st \in Statuses : \E i \in 1..Len(text) : text[i] = Header(st)
    ELSE None

\* status of the two sub_agents callbacks before it is logged: "TypeError"
\* when re.search is given an output that is no string.
SubAgentStatus(out) ==
    LET status == IF out.type = "dict" THEN Get(out.dict, "status", None) ELSE ""
    IN  IF status = None THEN None
        ELSE IF out.type # "str" THEN "TypeError"
        ELSE IF SearchStatus(out.text) # None THEN SearchStatus(out.text)
        ELSE status

\* sub_agents/web_researcher/agent.py: the status is logged as it is.
WebResearcherCallback(out) ==
    IF SubAgentStatus(out) = "TypeError" THEN CbRaised("TypeError")
    ELSE CbReturned(SubAgentStatus(out))

\* sub_agents/cv_parcer/agent.py: status.upper() is logged.
CvParcerCallback(out) ==
    IF SubAgentStatus(out) = "TypeError" THEN CbRaised("TypeError")
    ELSE IF SubAgentStatus(out) = None THEN CbRaised("AttributeError")
    ELSE CbReturned(Upper(SubAgentStatus(out)))

CallbackResult(variant, agent, out) ==
    CASE variant = "app.utils" -> AppUtilsCallback(agent, out)
      [] variant = "web_researcher" -> WebResearcherCallback(out)
      [] variant = "cv_parcer" -> CvParcerCallback(out)

CallbackInit ==
    /\ PipelineIdle
    /\ CallerIdle
    /\ ToolsIdle
    /\ JsonIdle
    /\ AppIdle
    /\ SafeIdle
    /\ cb_variant \in CbVariants
    /\ cb_agent \in CbAgents(cb_variant)
    /\ cb_output \in CbOutputs
    /\ cb_pc = "idle"
    /\ cb_exc = ""
    /\ cb_logged = ""

\* logging_agent_output_status(callback_context)
Callback ==
    /\ cb_pc = "idle"
    /\ LET r == CallbackResult(cb_variant, cb_agent, cb_output)
       IN  /\ cb_pc' = r.pc
           /\ cb_exc' = r.exc
           /\ cb_logged' = r.logged
    /\ UNCHANGED <<pipeVars, toolVars, jsonVars, appVars, safeVars, callerVars,
                   cb_variant, cb_agent, cb_output>>

CallbackNext == Callback

CallbackSpec == CallbackInit /\ [][CallbackNext]_vars

\* C24: for every content of the state the logging callback returns None
\* without raising, and it leaves the agent's output and the session state
\* as they were.
C24_SilentLogging ==
    /\ [](cb_pc # "raised")
    /\ [][cb_output' = cb_output /\ state' = state]_vars

====
